---- MODULE Spec2Model ----
(***************************************************************************)
(* Model of bot.py: the channel copy loop (safe_forward), the task that    *)
(* wraps it (start_forwarding_task), the admin commands and buttons that   *)
(* start and stop it, the configuration file and the SQLite progress       *)
(* store, and a process restart that reloads them (load_config).           *)
(*                                                                         *)
(* Every action is the code that runs between two awaits of one coroutine: *)
(* asyncio switches coroutines only at an await, so that code is atomic.   *)
(* A network call (a send, an entity lookup, the message iterator) either  *)
(* returns or raises; the local file and the SQLite store do not fail.     *)
(***************************************************************************)
EXTENDS Integers, Sequences, FiniteSets, TLC

\* ---- bounds of the model ------------------------------------------------
\* ids of the messages in the source channel: 1..MaxMsg
MaxMsg == 3
\* start requests (/forward, 'start' button) accepted over a run
MaxStarts == 2
\* process restarts over a run
MaxRestarts == 1
\* network calls that raise over a run
MaxFails == 2
\* batch_size and notify_interval of the hand-tuned configuration file
TunedBatchSize == 2
TunedNotifyInterval == 2
\* ids of the messages in the longer source channel: 1..LongMsg
LongMsg == 6
\* messages posted in the source channel over a run
MaxNew == 1

\* ---- program constants --------------------------------------------------
\* "Save progress every 5 messages"
SaveEvery == 5
\* auto-forward: `forwarded_count % 10 == 0`
AutoSaveEvery == 10
\* the ids get_channel_info resolves the admin's /source and /dest to
SRC == 1001
DST == 1002
DST2 == 1003
\* None, as far as the code tells it from a channel: it only tests truthiness
NoChannel == 0

VARIABLES
    config,       \* the in-memory config dict
    file,         \* bot_config.json: <<>> (absent or unreadable) or <<dict>>
    progress,     \* rows of the table progress
    message_map,  \* rows of the table message_map
    dest,         \* the destination channel: the source ids of its posts, in order
    dest2,        \* another channel the admin can make the destination, likewise
    tasks,        \* the start_forwarding_task tasks of this process
    starts,       \* start requests accepted so far
    restarts,     \* process restarts so far
    fails,        \* network calls that raised so far
    posts,        \* the source channel: the ids of its messages
    main,         \* main(): the await it is suspended at, and what it has started
    keepalive_log, \* the number of rows of the table keepalive_log
    update        \* the Telegram update dispatched last

\* everything a handler can change
state == <<config, file, progress, message_map, dest, dest2, tasks, starts, restarts,
           fails, posts, main, keepalive_log>>

vars == <<state, update>>

\* what neither a copy task nor the keep-alive loop touches
world == <<posts, main, update, keepalive_log>>

Slots == 1..MaxStarts
Source == posts

\* ---- dict.get(key, default) on a key that may be absent: the set of its values
DictGet(field, default) == IF field = {} THEN default ELSE CHOOSE v \in field : TRUE

Truthy(channel) == channel # NoChannel

default_config ==
    [source_channel |-> NoChannel,
     destination_channel |-> NoChannel,
     forward_delay |-> 2,
     batch_size |-> 100,
     batch_delay |-> 120,
     is_running |-> FALSE,
     forwarded_count |-> 0,
     last_forwarded_id |-> 0,
     skip_media_types |-> <<>>,
     auto_mode |-> FALSE,
     keep_alive |-> TRUE,
     notify_batch |-> TRUE,
     notify_interval |-> 50,
     auto_resume |-> {TRUE}]

\* a configuration file written by hand before the first start
tuned_config ==
    [default_config EXCEPT !.batch_size = TunedBatchSize,
                           !.notify_interval = TunedNotifyInterval,
                           !.skip_media_types = <<"photo">>]

\* ---- ProgressDB ---------------------------------------------------------
\* the save as it would be with a fresh row per save and no fixed id
save_progress_Insert(table, source, destination, last_id, total, status) ==
    table \cup
    {[id |-> 1, source_channel |-> source, dest_channel |-> destination,
      last_forwarded_id |-> last_id, total_forwarded |-> total, status |-> status]}

\* INSERT OR REPLACE INTO progress (id, ...) VALUES (1, ...)
save_progress(table, source, destination, last_id, total, status) ==
    {r \in table : r.id # 1} \cup
    {[id |-> 1, source_channel |-> source, dest_channel |-> destination,
      last_forwarded_id |-> last_id, total_forwarded |-> total, status |-> status]}

\* SELECT * FROM progress WHERE id = 1: the row, when has_progress
has_progress(table) == \E r \in table : r.id = 1
get_progress(table) == CHOOSE r \in table : r.id = 1

\* INSERT INTO keepalive_log, then "Keep only last 100 pings"
KeepPings == 100
log_keepalive(rows) == IF rows < KeepPings THEN rows + 1 ELSE KeepPings

\* the save as it would be if it cleared the table first
save_message_mapping_Truncating(table, source_id, dest_id) ==
    {[source_msg_id |-> source_id, dest_msg_id |-> dest_id]}

\* INSERT OR REPLACE INTO message_map, PRIMARY KEY (source_msg_id)
save_message_mapping(table, source_id, dest_id) ==
    {r \in table : r.source_msg_id # source_id} \cup
    {[source_msg_id |-> source_id, dest_msg_id |-> dest_id]}

\* load_config as it would be without the merge of the progress row into the file
load_config_FileOnly(f, table) ==
    IF f # <<>>
    THEN f[1]
    ELSE IF has_progress(table)
         THEN [default_config EXCEPT
                 !.source_channel = get_progress(table).source_channel,
                 !.destination_channel = get_progress(table).dest_channel,
                 !.last_forwarded_id = get_progress(table).last_forwarded_id,
                 !.forwarded_count = get_progress(table).total_forwarded]
         ELSE default_config

\* ---- load_config / save_config -------------------------------------------
MergeProgress(cfg, row) ==
    [cfg EXCEPT !.source_channel = row.source_channel,
                !.destination_channel = row.dest_channel,
                !.last_forwarded_id = row.last_forwarded_id,
                !.forwarded_count = row.total_forwarded]

load_config(f, table) ==
    IF f # <<>>
    THEN IF has_progress(table) /\ DictGet(f[1].auto_resume, TRUE)
         THEN MergeProgress(f[1], get_progress(table))
         ELSE f[1]
    ELSE IF has_progress(table)
         THEN MergeProgress(default_config, get_progress(table))
         ELSE default_config

ChannelsSaved(cfg) == Truthy(cfg.source_channel) /\ Truthy(cfg.destination_channel)

\* save_config writes the file, then the progress row when both channels are set
save_config_db(cfg, table) ==
    IF ChannelsSaved(cfg)
    THEN save_progress(table, cfg.source_channel, cfg.destination_channel,
                       cfg.last_forwarded_id, cfg.forwarded_count,
                       IF cfg.is_running THEN "running" ELSE "idle")
    ELSE table

save_config_file(cfg) == <<cfg>>

\* ---- the source channel ---------------------------------------------------
\* class name of message.media, lower-cased; "" for a message without media
MediaOf(id) == IF id = 2 THEN "messagemediaphoto" ELSE ""

\* Python's `skip in media_type` on the names that occur
IsSubstring(skip, media_type) ==
    \/ skip = media_type
    \/ <<skip, media_type>> \in {<<"photo", "messagemediaphoto">>,
                                 <<"media", "messagemediaphoto">>}

\* "Skip media types if configured"
Skipped(id, cfg) ==
    /\ MediaOf(id) # ""
    /\ \E i \in 1..Len(cfg.skip_media_types) :
          IsSubstring(cfg.skip_media_types[i], MediaOf(id))

\* the iterator as it would be with min_id inclusive
NextMessage_Inclusive(start_id, last) ==
    LET floor == IF last > start_id THEN last ELSE start_id
        rest == {id \in Source : id >= floor}
    IN IF rest = {} THEN 0 ELSE CHOOSE id \in rest : \A other \in rest : id <= other

\* client.iter_messages(source, min_id=start_id, reverse=True): the message after
\* the one yielded last, oldest first; 0 when there is none
NextMessage(start_id, last) ==
    LET floor == IF last > start_id THEN last ELSE start_id
        rest == {id \in Source : id > floor}
    IN IF rest = {} THEN 0 ELSE CHOOSE id \in rest : \A other \in rest : id <= other

\* ---- tasks ----------------------------------------------------------------
\* pc: the await a task is suspended at
\*   starting           the handler's reply, then create_task, not yet run
\*   setup              get_entity (twice), the 'Forwarding Started' message
\*   iter               the iterator's next message
\*   send               send_message to the destination
\*   notify             the 'Progress Update' message
\*   sleep              sleep(forward_delay)
\*   batch_notify       the 'Batch Complete' message
\*   batch_sleep        sleep(batch_delay)
\*   flood_warn         the 'Flood Warning' message
\*   flood_sleep        sleep(60)
\*   err_sleep          sleep(5)
\*   stop_notify        the 'Forwarding Paused' message
\*   error_notify       the 'Error Occurred' message of safe_forward
\*   complete_notify    the 'Complete' message of start_forwarding_task
\*   task_error_notify  the error message of start_forwarding_task
\* sent and ended are history: the ids this task copied, and how its loop ended
IdleTask ==
    [pc |-> "none", source_id |-> NoChannel, dest_id |-> NoChannel, start_id |-> 0,
     msg |-> 0, forwarded |-> 0, batch_count |-> 0, last_notified |-> 0,
     sent |-> <<>>, ended |-> "none"]

Free(t) == tasks[t].pc \in {"none", "done"}
Active(t) == tasks[t].pc \notin {"none", "done", "starting"}
FreeSlot == CHOOSE t \in Slots : Free(t) /\ \A u \in Slots : Free(u) => t <= u

\* asyncio.create_task(start_forwarding_task(event)), after the handler's reply
CreateTask(tbl) == [tbl EXCEPT ![FreeSlot] = [IdleTask EXCEPT !.pc = "starting"]]

\* ---- main() ------------------------------------------------------------------
\* required = ['API_ID', 'API_HASH', 'PHONE', 'ADMIN_ID']
Required == {"API_ID", "API_HASH", "PHONE", "ADMIN_ID"}

\* main() suspended in client.run_until_disconnected()
InLoop ==
    [pc |-> "loop", env |-> [var \in Required |-> "set"], authorized |-> TRUE,
     http |-> "up", keep_alive |-> TRUE, notified |-> TRUE, ended |-> "none"]

\* no update has been dispatched yet
NoUpdate == [sender |-> 0, kind |-> "none", data |-> <<>>, reply_to |-> 0, found |-> 0]

Init ==
    /\ file \in {<<>>, <<tuned_config>>}
    /\ progress = {}
    /\ message_map = {}
    /\ config = load_config(file, progress)
    /\ dest = <<>>
    /\ dest2 = <<>>
    /\ tasks = [t \in Slots |-> IdleTask]
    /\ starts = 0
    /\ restarts = 0
    /\ fails = 0
    /\ posts = 1..MaxMsg
    /\ main = InLoop
    /\ update = NoUpdate
    /\ keepalive_log = KeepPings

\* ---- admin commands and buttons ---------------------------------------------
\* /source [ID]
set_source ==
    LET cfg == [config EXCEPT !.source_channel = SRC] IN
    /\ config' = cfg
    /\ file' = save_config_file(cfg)
    /\ progress' = save_config_db(cfg, progress)
    /\ UNCHANGED <<message_map, dest, dest2, tasks, starts, restarts, posts, main, keepalive_log, fails>>

\* /dest [ID], with the id get_channel_info resolves it to
set_dest_to(actual_id) ==
    LET cfg == [config EXCEPT !.destination_channel = actual_id] IN
    /\ config' = cfg
    /\ file' = save_config_file(cfg)
    /\ progress' = save_config_db(cfg, progress)
    /\ UNCHANGED <<message_map, dest, dest2, tasks, starts, restarts, posts, main, keepalive_log, fails>>

set_dest == set_dest_to(DST)

\* the checks of /forward as they would be without the one of the running flag
ForwardAccepts_ChannelsOnly(cfg) ==
    Truthy(cfg.source_channel) /\ Truthy(cfg.destination_channel)

\* the checks /forward makes before it starts anything
ForwardAccepts(cfg) ==
    /\ Truthy(cfg.source_channel) /\ Truthy(cfg.destination_channel)
    /\ ~cfg.is_running

\* the check the 'start' button makes
StartButtonAccepts(cfg) ==
    Truthy(cfg.source_channel) /\ Truthy(cfg.destination_channel)

\* what both do once they accept
StartRequest ==
    LET cfg == [config EXCEPT !.is_running = TRUE] IN
    /\ starts < MaxStarts
    /\ config' = cfg
    /\ file' = save_config_file(cfg)
    /\ progress' = save_config_db(cfg, progress)
    /\ tasks' = CreateTask(tasks)
    /\ starts' = starts + 1
    /\ UNCHANGED <<message_map, dest, dest2, restarts, posts, main, keepalive_log, fails>>

\* /forward
forward_command ==
    IF ForwardAccepts(config) THEN StartRequest ELSE UNCHANGED state

\* button 'start'
callback_start ==
    IF StartButtonAccepts(config) THEN StartRequest ELSE UNCHANGED state

\* /stopforward
stopforward_command ==
    LET cfg == [config EXCEPT !.is_running = FALSE] IN
    /\ config' = cfg
    /\ file' = save_config_file(cfg)
    /\ progress' = save_progress(save_config_db(cfg, progress),
                                 cfg.source_channel, cfg.destination_channel,
                                 cfg.last_forwarded_id, cfg.forwarded_count, "stopped")
    /\ UNCHANGED <<message_map, dest, dest2, tasks, starts, restarts, posts, main, keepalive_log, fails>>

\* button 'stop'
callback_stop ==
    LET cfg == [config EXCEPT !.is_running = FALSE] IN
    /\ config' = cfg
    /\ file' = save_config_file(cfg)
    /\ progress' = save_config_db(cfg, progress)
    /\ UNCHANGED <<message_map, dest, dest2, tasks, starts, restarts, posts, main, keepalive_log, fails>>

\* ---- start_forwarding_task / safe_forward -------------------------------------
Raise == fails < MaxFails /\ fails' = fails + 1

\* the task's first step: the arguments of safe_forward are read from config
StartTask(t) ==
    /\ tasks[t].pc = "starting"
    /\ tasks' = [tasks EXCEPT ![t] = [@ EXCEPT !.pc = "setup",
                                                !.source_id = config.source_channel,
                                                !.dest_id = config.destination_channel,
                                                !.start_id = config.last_forwarded_id]]
    /\ UNCHANGED <<config, file, progress, message_map, dest, dest2, starts, restarts, world, fails>>

\* the handler's reply raises: the handler ends before create_task
StartAborted(t) ==
    /\ tasks[t].pc = "starting"
    /\ Raise
    /\ tasks' = [tasks EXCEPT ![t] = IdleTask]
    /\ UNCHANGED <<config, file, progress, message_map, dest, dest2, starts, restarts, world>>

\* `except Exception` of safe_forward: "Save progress even on error"
OuterExcept(t) ==
    /\ progress' = save_progress(progress, tasks[t].source_id, tasks[t].dest_id,
                                 config.last_forwarded_id, config.forwarded_count, "error")
    /\ tasks' = [tasks EXCEPT ![t] = [@ EXCEPT !.pc = "error_notify", !.ended = "error"]]
    /\ UNCHANGED <<config, file, message_map, dest, dest2, starts, restarts, world>>

\* "Final save", then `return forwarded`
FinalSave(t, how) ==
    /\ file' = save_config_file(config)
    /\ progress' = save_progress(save_config_db(config, progress),
                                 tasks[t].source_id, tasks[t].dest_id,
                                 config.last_forwarded_id, config.forwarded_count,
                                 "completed")
    /\ tasks' = [tasks EXCEPT ![t] = [@ EXCEPT !.pc = "complete_notify", !.ended = how]]
    /\ UNCHANGED <<config, message_map, dest, dest2, starts, restarts, world>>

SetupOk(t) ==
    /\ tasks[t].pc = "setup"
    /\ tasks' = [tasks EXCEPT ![t] = [@ EXCEPT !.pc = "iter"]]
    /\ UNCHANGED <<config, file, progress, message_map, dest, dest2, starts, restarts, world, fails>>

SetupFail(t) ==
    /\ tasks[t].pc = "setup"
    /\ Raise
    /\ OuterExcept(t)

\* the flag the loop polls once per message
StopRequested(cfg) == ~cfg.is_running

\* the iterator has no further message
IterExhausted(t) ==
    /\ tasks[t].pc = "iter"
    /\ NextMessage(tasks[t].start_id, tasks[t].msg) = 0
    /\ FinalSave(t, "exhausted")
    /\ UNCHANGED fails

\* the poll as it would be if it waited for the flag instead of leaving the loop
IterStop_Wait(t) ==
    /\ tasks[t].pc = "iter"
    /\ NextMessage(tasks[t].start_id, tasks[t].msg) # 0
    /\ StopRequested(config)
    /\ UNCHANGED vars

\* the iterator yields a message and the flag is found cleared
IterStop(t) ==
    /\ tasks[t].pc = "iter"
    /\ NextMessage(tasks[t].start_id, tasks[t].msg) # 0
    /\ StopRequested(config)
    /\ progress' = save_progress(progress, tasks[t].source_id, tasks[t].dest_id,
                                 config.last_forwarded_id, config.forwarded_count, "stopped")
    /\ tasks' = [tasks EXCEPT ![t] = [@ EXCEPT !.pc = "stop_notify"]]
    /\ UNCHANGED <<config, file, message_map, dest, dest2, starts, restarts, world, fails>>

\* the iterator yields a message of a skipped media type: `continue`
IterSkip(t) ==
    LET m == NextMessage(tasks[t].start_id, tasks[t].msg) IN
    /\ tasks[t].pc = "iter"
    /\ m # 0
    /\ ~StopRequested(config)
    /\ Skipped(m, config)
    /\ tasks' = [tasks EXCEPT ![t] = [@ EXCEPT !.msg = m]]
    /\ UNCHANGED <<config, file, progress, message_map, dest, dest2, starts, restarts, world, fails>>

\* the loop as it would be without the poll of the flag
IterSend_NoPoll(t) ==
    LET m == NextMessage(tasks[t].start_id, tasks[t].msg) IN
    /\ tasks[t].pc = "iter"
    /\ m # 0
    /\ ~Skipped(m, config)
    /\ tasks' = [tasks EXCEPT ![t] = [@ EXCEPT !.pc = "send", !.msg = m]]
    /\ UNCHANGED <<config, file, progress, message_map, dest, dest2, starts, restarts, world, fails>>

\* the iterator yields a message and the send to the destination begins
IterSend(t) ==
    LET m == NextMessage(tasks[t].start_id, tasks[t].msg) IN
    /\ tasks[t].pc = "iter"
    /\ m # 0
    /\ ~StopRequested(config)
    /\ ~Skipped(m, config)
    /\ tasks' = [tasks EXCEPT ![t] = [@ EXCEPT !.pc = "send", !.msg = m]]
    /\ UNCHANGED <<config, file, progress, message_map, dest, dest2, starts, restarts, world, fails>>

IterFail(t) ==
    /\ tasks[t].pc = "iter"
    /\ Raise
    /\ OuterExcept(t)

\* the posts of a destination channel, and send_message to it: sent_msg.id is
\* the next id of that channel
Channel(channel) == IF channel = DST2 THEN dest2 ELSE dest

Post(channel, id) ==
    IF channel = DST2
    THEN dest2' = Append(dest2, id) /\ dest' = dest
    ELSE dest' = Append(dest, id) /\ dest2' = dest2

\* the counters as they would be with the offset left alone
Copied_CountOnly(cfg, id) == [cfg EXCEPT !.forwarded_count = @ + 1]

\* the counters after a successful send
Copied(cfg, id) ==
    [cfg EXCEPT !.forwarded_count = @ + 1, !.last_forwarded_id = id]

\* the send as it would be without the save at every 5th copy
SendOk_NoSave(t) ==
    LET tk == tasks[t]
        cfg == Copied(config, tk.msg)
        n == tk.forwarded + 1
        notify == DictGet({cfg.notify_batch}, TRUE)
                  /\ n - tk.last_notified >= DictGet({cfg.notify_interval}, 50)
    IN
    /\ tk.pc = "send"
    /\ Post(tk.dest_id, tk.msg)
    /\ config' = cfg
    /\ message_map' = save_message_mapping(message_map, tk.msg,
                                           Len(Channel(tk.dest_id)) + 1)
    /\ UNCHANGED <<file, progress>>
    /\ tasks' = [tasks EXCEPT ![t] = [@ EXCEPT !.pc = IF notify THEN "notify" ELSE "sleep",
                                                !.forwarded = n,
                                                !.batch_count = @ + 1,
                                                !.sent = Append(@, tk.msg)]]
    /\ UNCHANGED <<starts, restarts, world, fails>>

\* the send returned: counters, mapping, the save at every 5th copy of the session
SendOk(t) ==
    LET tk == tasks[t]
        cfg == Copied(config, tk.msg)
        n == tk.forwarded + 1
        notify == DictGet({cfg.notify_batch}, TRUE)
                  /\ n - tk.last_notified >= DictGet({cfg.notify_interval}, 50)
    IN
    /\ tk.pc = "send"
    /\ Post(tk.dest_id, tk.msg)
    /\ config' = cfg
    /\ message_map' = save_message_mapping(message_map, tk.msg,
                                           Len(Channel(tk.dest_id)) + 1)
    /\ IF n % SaveEvery = 0
       THEN /\ file' = save_config_file(cfg)
            /\ progress' = save_progress(save_config_db(cfg, progress),
                                         tk.source_id, tk.dest_id, tk.msg,
                                         cfg.forwarded_count, "running")
       ELSE UNCHANGED <<file, progress>>
    /\ tasks' = [tasks EXCEPT ![t] = [@ EXCEPT !.pc = IF notify THEN "notify" ELSE "sleep",
                                                !.forwarded = n,
                                                !.batch_count = @ + 1,
                                                !.sent = Append(@, tk.msg)]]
    /\ UNCHANGED <<starts, restarts, world, fails>>

\* the loop as it would be without its own handler: the failure escapes
InnerExcept_Escapes(t, flood) == OuterExcept(t)

\* `except Exception` inside the loop: "flood" in the error text or not
InnerExcept(t, flood) ==
    /\ tasks' = [tasks EXCEPT ![t] = [@ EXCEPT !.pc = IF flood THEN "flood_warn"
                                                               ELSE "err_sleep"]]
    /\ UNCHANGED <<config, file, progress, message_map, dest, dest2, starts, restarts, world>>

SendFail(t) ==
    /\ tasks[t].pc = "send"
    /\ Raise
    /\ \E flood \in BOOLEAN : InnerExcept(t, flood)

NotifyOk(t) ==
    /\ tasks[t].pc = "notify"
    /\ tasks' = [tasks EXCEPT ![t] = [@ EXCEPT !.pc = "sleep", !.last_notified = tasks[t].forwarded]]
    /\ UNCHANGED <<config, file, progress, message_map, dest, dest2, starts, restarts, world, fails>>

NotifyFail(t) ==
    /\ tasks[t].pc = "notify"
    /\ Raise
    /\ \E flood \in BOOLEAN : InnerExcept(t, flood)

\* sleep(forward_delay) returned: "Batch delay" when the batch is full
SleepDone(t) ==
    LET tk == tasks[t] IN
    /\ tk.pc = "sleep"
    /\ IF tk.batch_count >= config.batch_size
       THEN /\ progress' = save_progress(progress, tk.source_id, tk.dest_id, tk.msg,
                                         config.forwarded_count, "batch_pause")
            /\ tasks' = [tasks EXCEPT ![t] = [@ EXCEPT !.pc = "batch_notify"]]
       ELSE /\ tasks' = [tasks EXCEPT ![t] = [@ EXCEPT !.pc = "iter"]]
            /\ UNCHANGED progress
    /\ UNCHANGED <<config, file, message_map, dest, dest2, starts, restarts, world, fails>>

BatchNotifyOk(t) ==
    /\ tasks[t].pc = "batch_notify"
    /\ tasks' = [tasks EXCEPT ![t] = [@ EXCEPT !.pc = "batch_sleep"]]
    /\ UNCHANGED <<config, file, progress, message_map, dest, dest2, starts, restarts, world, fails>>

BatchNotifyFail(t) ==
    /\ tasks[t].pc = "batch_notify"
    /\ Raise
    /\ \E flood \in BOOLEAN : InnerExcept(t, flood)

\* sleep(batch_delay) returned: "Update status after pause"
BatchSleepDone(t) ==
    LET tk == tasks[t] IN
    /\ tk.pc = "batch_sleep"
    /\ progress' = save_progress(progress, tk.source_id, tk.dest_id, tk.msg,
                                 config.forwarded_count, "running")
    /\ tasks' = [tasks EXCEPT ![t] = [@ EXCEPT !.pc = "iter", !.batch_count = 0]]
    /\ UNCHANGED <<config, file, message_map, dest, dest2, starts, restarts, world, fails>>

FloodWarnOk(t) ==
    /\ tasks[t].pc = "flood_warn"
    /\ tasks' = [tasks EXCEPT ![t] = [@ EXCEPT !.pc = "flood_sleep"]]
    /\ UNCHANGED <<config, file, progress, message_map, dest, dest2, starts, restarts, world, fails>>

\* raised inside the inner handler: it escapes to the outer one
FloodWarnFail(t) ==
    /\ tasks[t].pc = "flood_warn"
    /\ Raise
    /\ OuterExcept(t)

\* sleep(60) or sleep(5) returned: `continue`
ErrSleepDone(t) ==
    /\ tasks[t].pc \in {"flood_sleep", "err_sleep"}
    /\ tasks' = [tasks EXCEPT ![t] = [@ EXCEPT !.pc = "iter"]]
    /\ UNCHANGED <<config, file, progress, message_map, dest, dest2, starts, restarts, world, fails>>

\* 'Forwarding Paused' was sent: `break`
StopNotifyOk(t) ==
    /\ tasks[t].pc = "stop_notify"
    /\ FinalSave(t, "stopped")
    /\ UNCHANGED fails

StopNotifyFail(t) ==
    /\ tasks[t].pc = "stop_notify"
    /\ Raise
    /\ OuterExcept(t)

\* 'Error Occurred' was sent: `return 0`
ErrorNotifyOk(t) ==
    /\ tasks[t].pc = "error_notify"
    /\ tasks' = [tasks EXCEPT ![t] = [@ EXCEPT !.pc = "complete_notify"]]
    /\ UNCHANGED <<config, file, progress, message_map, dest, dest2, starts, restarts, world, fails>>

\* raised inside the outer handler: safe_forward raises into start_forwarding_task
ErrorNotifyFail(t) ==
    /\ tasks[t].pc = "error_notify"
    /\ Raise
    /\ tasks' = [tasks EXCEPT ![t] = [@ EXCEPT !.pc = "task_error_notify"]]
    /\ UNCHANGED <<config, file, progress, message_map, dest, dest2, starts, restarts, world>>

\* the task as it would be with the flag cleared on the normal path only
FinallyConfig_KeepOnError(cfg, ended) ==
    IF ended = "error" THEN cfg ELSE [cfg EXCEPT !.is_running = FALSE]

\* `finally` of start_forwarding_task, the config it leaves
FinallyConfig(cfg, ended) == [cfg EXCEPT !.is_running = FALSE]

\* `finally` of start_forwarding_task; the task is over
Finally(t) ==
    LET cfg == FinallyConfig(config, tasks[t].ended) IN
    /\ config' = cfg
    /\ file' = save_config_file(cfg)
    /\ progress' = save_config_db(cfg, progress)
    /\ tasks' = [tasks EXCEPT ![t] = [IdleTask EXCEPT !.pc = "done",
                                                       !.ended = tasks[t].ended]]
    /\ UNCHANGED <<message_map, dest, dest2, starts, restarts, world>>

\* `forwarded = await safe_forward(...)`, the "Session:" figure of 'Complete':
\* `return forwarded` after the loop, `return 0` from the outer handler
SessionReported(tk) == IF tk.ended = "error" THEN 0 ELSE tk.forwarded

CompleteNotifyOk(t) ==
    /\ tasks[t].pc = "complete_notify"
    /\ Finally(t)
    /\ UNCHANGED fails

CompleteNotifyFail(t) ==
    /\ tasks[t].pc = "complete_notify"
    /\ Raise
    /\ tasks' = [tasks EXCEPT ![t] = [@ EXCEPT !.pc = "task_error_notify"]]
    /\ UNCHANGED <<config, file, progress, message_map, dest, dest2, starts, restarts, world>>

TaskErrorNotifyOk(t) ==
    /\ tasks[t].pc = "task_error_notify"
    /\ Finally(t)
    /\ UNCHANGED fails

\* raised inside the task's handler: `finally` runs, the task ends with the exception
TaskErrorNotifyFail(t) ==
    /\ tasks[t].pc = "task_error_notify"
    /\ Raise
    /\ Finally(t)

\* ---- keep_alive_aggressive -----------------------------------------------------
\* one round of the loop: db.log_keepalive(), then "Save current progress to
\* database (creates activity)"
keep_alive_aggressive ==
    /\ DictGet({config.keep_alive}, TRUE)
    /\ keepalive_log' = log_keepalive(keepalive_log)
    /\ IF ChannelsSaved(config)
       THEN progress' = save_progress(progress, config.source_channel,
                                      config.destination_channel,
                                      config.last_forwarded_id, config.forwarded_count,
                                      IF config.is_running THEN "running" ELSE "idle")
       ELSE UNCHANGED progress
    /\ UNCHANGED <<config, file, message_map, dest, dest2, tasks, starts, restarts, posts,
                   main, update, fails>>

\* ---- the process --------------------------------------------------------------
\* the process is killed at any point and started again: `config = load_config()`
Restart ==
    /\ restarts < MaxRestarts
    /\ restarts' = restarts + 1
    /\ config' = load_config(file, progress)
    /\ tasks' = [t \in Slots |-> IdleTask]
    /\ UNCHANGED <<file, progress, message_map, dest, dest2, starts, fails, world>>

TaskStep(t) ==
    \/ StartTask(t) \/ StartAborted(t)
    \/ SetupOk(t) \/ SetupFail(t)
    \/ IterExhausted(t) \/ IterStop(t) \/ IterSkip(t) \/ IterSend(t) \/ IterFail(t)
    \/ SendOk(t) \/ SendFail(t)
    \/ NotifyOk(t) \/ NotifyFail(t)
    \/ SleepDone(t)
    \/ BatchNotifyOk(t) \/ BatchNotifyFail(t) \/ BatchSleepDone(t)
    \/ FloodWarnOk(t) \/ FloodWarnFail(t) \/ ErrSleepDone(t)
    \/ StopNotifyOk(t) \/ StopNotifyFail(t)
    \/ ErrorNotifyOk(t) \/ ErrorNotifyFail(t)
    \/ CompleteNotifyOk(t) \/ CompleteNotifyFail(t)
    \/ TaskErrorNotifyOk(t) \/ TaskErrorNotifyFail(t)

\* the admin's commands and buttons, the update itself left out of the state
AdminStep ==
    \/ set_source /\ UNCHANGED update
    \/ set_dest /\ UNCHANGED update
    \/ forward_command /\ UNCHANGED update
    \/ callback_start /\ UNCHANGED update
    \/ stopforward_command /\ UNCHANGED update
    \/ callback_stop /\ UNCHANGED update

Next ==
    \/ AdminStep
    \/ \E t \in Slots : TaskStep(t)
    \/ keep_alive_aggressive
    \/ Restart

Spec == Init /\ [][Next]_vars

\* ---- startup alone: load_config on every file and progress table ---------------
FileInputs ==
    {<<>>} \cup
    {<<[default_config EXCEPT !.source_channel = s, !.destination_channel = d,
                              !.last_forwarded_id = l, !.forwarded_count = l,
                              !.auto_resume = a]>> :
        s \in {NoChannel, SRC}, d \in {NoChannel, DST}, l \in 0..MaxMsg,
        a \in {{}, {TRUE}, {FALSE}}}

ProgressInputs ==
    {{}} \cup
    {save_progress({}, s, DST, l, n, "running") :
        s \in {NoChannel, SRC}, l \in 0..MaxMsg, n \in 0..MaxMsg}

InitLoad ==
    /\ file \in FileInputs
    /\ progress \in ProgressInputs
    /\ message_map = {}
    /\ config = default_config
    /\ dest = <<>>
    /\ dest2 = <<>>
    /\ tasks = [t \in Slots |-> IdleTask]
    /\ starts = 0
    /\ restarts = 0
    /\ fails = 0
    /\ posts = 1..MaxMsg
    /\ main = InLoop
    /\ update = NoUpdate
    /\ keepalive_log = KeepPings

SpecLoad == InitLoad /\ [][Restart]_vars

\* ---- updates: messages, button presses, posts in the source channel ----------
\* ADMIN_ID = int(os.getenv('ADMIN_ID', '0')), and somebody else
ADMIN_ID == 7
Stranger == 8
Users == {ADMIN_ID, Stranger}

\* event.chat_id of a channel: the marked id, where entity.id is the bare one
PeerId(channel) == 0 - (100000 + channel)

\* message.message of the source channel's messages
TextOf(id) ==
    CASE id % 4 = 0 -> "/forward"
      [] id % 4 = 2 -> ""
      [] OTHER -> "a"

\* a configuration file written by hand with auto-mode on and the marked ids
auto_config ==
    [default_config EXCEPT !.auto_mode = TRUE,
                           !.source_channel = PeerId(SRC),
                           !.destination_channel = PeerId(DST),
                           !.forwarded_count = AutoSaveEvery - 1]

\* int(token), defined where the token is a number
IntArgs == (0 - 1)..MaxMsg
IsInt(token) == \E n \in IntArgs : ToString(n) = token
IntOf(token) == CHOOSE n \in IntArgs : ToString(n) = token

\* str.lower() on the words that occur
Lower(token) ==
    CASE token = "CONFIRM" -> "confirm"
      [] token = "Turbo" -> "turbo"
      [] OTHER -> token

\* /setid as it would be without `if msg_id < 0: msg_id = 0`
setid_command_NoClamp(text) ==
    IF Len(text) >= 2 /\ IsInt(text[2])
    THEN LET msg_id == IntOf(text[2])
             cfg == [config EXCEPT !.last_forwarded_id = msg_id] IN
         /\ config' = cfg
         /\ file' = save_config_file(cfg)
         /\ progress' = save_progress(save_config_db(cfg, progress),
                                      cfg.source_channel, cfg.destination_channel,
                                      msg_id, cfg.forwarded_count, "manual_set")
         /\ UNCHANGED <<message_map, dest, dest2, tasks, starts, restarts, fails, posts,
                        main, keepalive_log>>
    ELSE UNCHANGED state

\* /setid [id]; IndexError and ValueError end in the usage reply
setid_command(text) ==
    IF Len(text) >= 2 /\ IsInt(text[2])
    THEN LET msg_id == IF IntOf(text[2]) < 0 THEN 0 ELSE IntOf(text[2])
             cfg == [config EXCEPT !.last_forwarded_id = msg_id] IN
         /\ config' = cfg
         /\ file' = save_config_file(cfg)
         /\ progress' = save_progress(save_config_db(cfg, progress),
                                      cfg.source_channel, cfg.destination_channel,
                                      msg_id, cfg.forwarded_count, "manual_set")
         /\ UNCHANGED <<message_map, dest, dest2, tasks, starts, restarts, fails, posts, main, keepalive_log>>
    ELSE UNCHANGED state

\* /reset confirm as it would be if it reset the offset and kept the count
reset_command_KeepCount(text) ==
    LET confirm == IF Len(text) > 1 THEN Lower(text[2]) ELSE "" IN
    IF confirm = "confirm"
    THEN LET cfg == [config EXCEPT !.last_forwarded_id = 0] IN
         /\ config' = cfg
         /\ file' = save_config_file(cfg)
         /\ progress' = save_progress(save_config_db(cfg, progress),
                                      cfg.source_channel, cfg.destination_channel,
                                      0, cfg.forwarded_count, "reset")
         /\ UNCHANGED <<message_map, dest, dest2, tasks, starts, restarts, fails, posts,
                        main, keepalive_log>>
    ELSE UNCHANGED state

\* /reset [confirm]
reset_command(text) ==
    LET confirm == IF Len(text) > 1 THEN Lower(text[2]) ELSE "" IN
    IF confirm = "confirm"
    THEN LET cfg == [config EXCEPT !.last_forwarded_id = 0, !.forwarded_count = 0] IN
         /\ config' = cfg
         /\ file' = save_config_file(cfg)
         /\ progress' = save_progress(save_config_db(cfg, progress),
                                      cfg.source_channel, cfg.destination_channel,
                                      0, 0, "reset")
         /\ UNCHANGED <<message_map, dest, dest2, tasks, starts, restarts, fails, posts, main, keepalive_log>>
    ELSE UNCHANGED state

\* presets of /speed: delay, batch, rest
presets ==
    [preset \in {"safe", "balanced", "fast", "turbo"} |->
        CASE preset = "safe" -> <<3, 50, 300>>
          [] preset = "balanced" -> <<2, 100, 120>>
          [] preset = "fast" -> <<1, 150, 90>>
          [] OTHER -> <<1, 200, 60>>]

\* /speed as it would be if an unknown preset fell back to the last one
set_speed_preset_Fallback(text) ==
    IF Len(text) >= 2
    THEN LET preset == IF Lower(text[2]) \in DOMAIN presets
                       THEN presets[Lower(text[2])] ELSE presets["turbo"]
             cfg == [config EXCEPT !.forward_delay = preset[1],
                                   !.batch_size = preset[2],
                                   !.batch_delay = preset[3]] IN
         /\ config' = cfg
         /\ file' = save_config_file(cfg)
         /\ progress' = save_config_db(cfg, progress)
         /\ UNCHANGED <<message_map, dest, dest2, tasks, starts, restarts, fails, posts,
                        main, keepalive_log>>
    ELSE UNCHANGED state

\* /speed [preset]
set_speed_preset(text) ==
    IF Len(text) >= 2 /\ Lower(text[2]) \in DOMAIN presets
    THEN LET preset == presets[Lower(text[2])]
             cfg == [config EXCEPT !.forward_delay = preset[1],
                                   !.batch_size = preset[2],
                                   !.batch_delay = preset[3]] IN
         /\ config' = cfg
         /\ file' = save_config_file(cfg)
         /\ progress' = save_config_db(cfg, progress)
         /\ UNCHANGED <<message_map, dest, dest2, tasks, starts, restarts, fails, posts, main, keepalive_log>>
    ELSE UNCHANGED state

\* the handler whose pattern matches the text; /start, /status, /progress,
\* /health, /help and /laststatus only reply
command(text) ==
    CASE text[1] = "/source" -> set_source
      [] text[1] = "/dest" -> set_dest
      [] text[1] = "/forward" -> forward_command
      [] text[1] = "/stopforward" -> stopforward_command
      [] text[1] = "/setid" -> setid_command(text)
      [] text[1] = "/reset" -> reset_command(text)
      [] text[1] = "/speed" -> set_speed_preset(text)
      [] OTHER -> UNCHANGED state

\* events.NewMessage(pattern=..., from_users=ADMIN_ID) as it would be without
\* from_users
on_command_AnySender(sender, text) == command(text)

\* events.NewMessage(pattern=..., from_users=ADMIN_ID)
on_command(sender, text) ==
    IF sender = ADMIN_ID THEN command(text) ELSE UNCHANGED state

\* callback_handler as it would be without the sender check
callback_handler_AnySender(sender, data) ==
    CASE data = "start" -> callback_start
      [] data = "stop" -> callback_stop
      [] OTHER -> UNCHANGED state

\* events.CallbackQuery: 'refresh', 'status' and 'stats' only reply, and no
\* branch matches the other buttons of the menu
callback_handler(sender, data) ==
    IF sender # ADMIN_ID
    THEN UNCHANGED state
    ELSE CASE data = "start" -> callback_start
           [] data = "stop" -> callback_stop
           [] OTHER -> UNCHANGED state

\* events.NewMessage without a filter, for a message with this id in this chat:
\* the sleep, the lookup and the send return, or one of them raises
auto_forward_handler(chat_id, id) ==
    IF /\ config.auto_mode /\ Truthy(config.source_channel)
       /\ chat_id = config.source_channel /\ Truthy(config.destination_channel)
    THEN \/ LET cfg == Copied(config, id) IN
            /\ Post(config.destination_channel, id)
            /\ config' = cfg
            /\ message_map' = save_message_mapping(
                                  message_map, id,
                                  Len(Channel(config.destination_channel)) + 1)
            /\ IF cfg.forwarded_count % AutoSaveEvery = 0
               THEN /\ file' = save_config_file(cfg)
                    /\ progress' = save_config_db(cfg, progress)
               ELSE UNCHANGED <<file, progress>>
            /\ UNCHANGED <<tasks, starts, restarts, fails, main, keepalive_log>>
         \/ /\ Raise
            /\ UNCHANGED <<config, file, progress, message_map, dest, dest2, tasks, starts,
                           restarts, main, keepalive_log>>
    ELSE UNCHANGED <<config, file, progress, message_map, dest, dest2, tasks, starts,
                     restarts, fails, main, keepalive_log>>

\* the menu's buttons
Buttons ==
    {"status", "set_source", "set_dest", "start", "stop", "toggle_auto",
     "settings", "stats", "refresh"}

\* the messages sent to the bot's account in a chat that is not the source channel
Texts ==
    {<<"/source", "-1001001">>, <<"/dest", "-1001002">>, <<"/forward">>,
     <<"/stopforward">>, <<"/status">>, <<"/setid">>, <<"/setid", "x">>,
     <<"/reset">>, <<"/reset", "CONFIRM">>, <<"/speed", "Turbo">>,
     <<"/speed">>, <<"/speed", "slow">>, <<"/setid", "-1">>,
     <<"/setid", ToString(MaxMsg)>>}

\* a message arrives in a chat that is not the source channel
NewMessage(sender, text) ==
    /\ update' = [sender |-> sender, kind |-> "message", data |-> text,
                  reply_to |-> 0, found |-> 0]
    /\ on_command(sender, text)

\* a button of the menu is pressed
CallbackQuery(sender, data) ==
    /\ update' = [sender |-> sender, kind |-> "callback", data |-> <<data>>,
                  reply_to |-> 0, found |-> 0]
    /\ callback_handler(sender, data)

\* a message is posted in the source channel
ChannelPost(sender) ==
    LET id == 1 + CHOOSE m \in posts : \A other \in posts : other <= m IN
    /\ Cardinality(posts) < MaxMsg + MaxNew
    /\ posts' = posts \cup {id}
    /\ update' = [sender |-> sender, kind |-> "post", data |-> <<TextOf(id)>>,
                  reply_to |-> 0, found |-> 0]
    /\ auto_forward_handler(PeerId(SRC), id)

InitChat ==
    /\ file \in {<<>>, <<auto_config>>}
    /\ progress = {}
    /\ message_map = {}
    /\ config = load_config(file, progress)
    /\ dest = <<>>
    /\ dest2 = <<>>
    /\ tasks = [t \in Slots |-> IdleTask]
    /\ starts = MaxStarts - 1
    /\ restarts = 0
    /\ fails = MaxFails
    /\ posts = 1..MaxMsg
    /\ main = InLoop
    /\ update = NoUpdate
    /\ keepalive_log = KeepPings

NextChat ==
    \/ \E sender \in Users, text \in Texts : NewMessage(sender, text)
    \/ \E sender \in Users, data \in Buttons : CallbackQuery(sender, data)
    \/ \E sender \in Users : ChannelPost(sender)
    \/ \E t \in Slots : StartTask(t)

\* the dispatch of updates to the handlers, up to the first step of a copy task
SpecChat == InitChat /\ [][NextChat]_vars

\* ---- position recovery -----------------------------------------------------------
\* iter_messages(source_channel, limit=1000): the most recent messages
ScanLimit == 1000
Scanned == {id \in posts : Cardinality({other \in posts : other > id}) < ScanLimit}

\* bool(message.media)
HasMedia(id) == MediaOf(id) # ""

\* "Compare text and media presence" of a source message and of a destination
\* message, which carries the text and the media of the source message it copies
SameContent(source_msg, copied) ==
    /\ TextOf(source_msg) = TextOf(copied)
    /\ HasMedia(source_msg) = HasMedia(copied)

\* SELECT source_msg_id FROM message_map WHERE dest_msg_id = ?: the rows fetchone
\* takes one of
find_source_by_dest(table, dest_id) ==
    {r.source_msg_id : r \in {q \in table : q.dest_msg_id = dest_id}}

\* find_source_id_from_dest_message returns result (0 for None); a call that raises
\* returns None as the search without a match does
find_source_id_from_dest_message(dest_msg_id, dest_channel, result) ==
    LET db_result == find_source_by_dest(message_map, dest_msg_id)
        channel == Channel(dest_channel)
        matches == IF dest_msg_id \in 1..Len(channel)
                   THEN {id \in Scanned : SameContent(id, channel[dest_msg_id])}
                   ELSE {}
    IN IF db_result # {}
       THEN result \in db_result /\ UNCHANGED message_map
       ELSE IF matches = {}
            THEN result = 0 /\ UNCHANGED message_map
            ELSE /\ result = CHOOSE id \in matches : \A other \in matches : other <= id
                 /\ message_map' = save_message_mapping(message_map, result, dest_msg_id)

\* /findid in reply to the message with this id
findid_handler(dest_msg_id) ==
    /\ IF Truthy(config.source_channel) /\ Truthy(config.destination_channel)
       THEN \E result \in 0..(MaxMsg + MaxNew) :
               /\ find_source_id_from_dest_message(
                      dest_msg_id, config.destination_channel, result)
               /\ update' = [sender |-> ADMIN_ID, kind |-> "findid",
                             data |-> <<"/findid">>, reply_to |-> dest_msg_id,
                             found |-> result]
       ELSE /\ update' = [sender |-> ADMIN_ID, kind |-> "findid",
                          data |-> <<"/findid">>, reply_to |-> dest_msg_id, found |-> 0]
            /\ UNCHANGED message_map
    /\ UNCHANGED <<config, file, progress, dest, dest2, tasks, starts, restarts, fails,
                   posts, main, keepalive_log>>

\* ---- everything that writes the message mapping ------------------------------------
InitMap ==
    /\ file = <<auto_config>>
    /\ progress = {}
    /\ message_map = {}
    /\ config = load_config(file, progress)
    /\ dest = <<>>
    /\ dest2 = <<>>
    /\ tasks = [t \in Slots |-> IdleTask]
    /\ starts = MaxStarts - 1
    /\ restarts = 0
    /\ fails = MaxFails
    /\ posts = 1..MaxMsg
    /\ main = InLoop
    /\ update = NoUpdate
    /\ keepalive_log = KeepPings

\* the steps of a copy task when no call raises and nothing is skipped or notified
MapTaskStep(t) ==
    \/ StartTask(t) \/ SetupOk(t)
    \/ IterExhausted(t) \/ IterStop(t) \/ IterSend(t)
    \/ SendOk(t) \/ SleepDone(t)
    \/ StopNotifyOk(t) \/ CompleteNotifyOk(t)

NextMap ==
    \/ forward_command /\ UNCHANGED update
    \/ stopforward_command /\ UNCHANGED update
    \/ set_dest_to(DST2) /\ UNCHANGED update
    \/ setid_command(<<"/setid", "0">>) /\ UNCHANGED update
    \/ reset_command(<<"/reset", "confirm">>) /\ UNCHANGED update
    \/ \E dest_msg_id \in 1..MaxMsg : findid_handler(dest_msg_id)
    \/ ChannelPost(ADMIN_ID)
    \/ \E t \in Slots : MapTaskStep(t)

SpecMap == InitMap /\ [][NextMap]_vars

\* ---- the process from its start: the module's top level, then main() ----------
\* an environment variable is unset, set to the empty string, or set
EnvValues == {"unset", "", "set"}

\* validate_env as it would be with PHONE left out of the required names
validate_env_NoPhone(env) ==
    \A var \in Required \ {"PHONE"} : env[var] = "set"

\* `not os.getenv(var)` for no required name
validate_env(env) == \A var \in Required : env[var] = "set"

\* main() at one of its awaits; nothing main changes is changed by anything else
MainStep(pc, next) ==
    /\ main.pc = pc
    /\ main' = next
    /\ UNCHANGED <<config, file, progress, message_map, dest, dest2, tasks, starts, restarts,
                   posts, update, keepalive_log>>

\* the `finally` of main: cleanup when start_http_server had returned
MainFinally(how) ==
    [main EXCEPT !.pc = IF main.http = "up" THEN "cleanup" ELSE how, !.ended = how]

\* int('') at the top level raises; TelegramClient(session, 0, ...) and
\* TelegramClient(session, id, '') are the library's to accept or to refuse
ImportRaises ==
    /\ \/ main.env["API_ID"] # "set"
       \/ main.env["ADMIN_ID"] = ""
       \/ main.env["API_HASH"] = ""
    /\ MainStep("import", [main EXCEPT !.pc = "crashed"])
    /\ UNCHANGED fails

\* run_until_complete(main()), up to the first await of main
MainStart ==
    /\ main.env["API_ID"] # "" /\ main.env["ADMIN_ID"] # ""
    /\ MainStep("import",
                IF validate_env(main.env)
                THEN [main EXCEPT !.pc = "http"]
                ELSE [main EXCEPT !.pc = "returned", !.ended = "returned"])
    /\ UNCHANGED fails

\* http_runner = await start_http_server()
HttpStarted ==
    /\ MainStep("http", [main EXCEPT !.pc = "connect", !.http = "up"])
    /\ UNCHANGED fails

HttpFailed ==
    /\ Raise
    /\ MainStep("http", MainFinally("raised"))

\* await client.connect()
Connected ==
    /\ MainStep("connect", [main EXCEPT !.pc = "authorize"])
    /\ UNCHANGED fails

ConnectFailed ==
    /\ Raise
    /\ MainStep("connect", MainFinally("raised"))

\* await client.is_user_authorized()
Authorized ==
    /\ MainStep("authorize",
                IF main.authorized
                THEN [main EXCEPT !.pc = "get_me"]
                ELSE MainFinally("returned"))
    /\ UNCHANGED fails

\* me = await client.get_me(), then create_task(keep_alive_aggressive())
GotMe ==
    /\ MainStep("get_me", [main EXCEPT !.pc = "notify", !.keep_alive = TRUE])
    /\ UNCHANGED fails

GetMeFailed ==
    /\ Raise
    /\ MainStep("get_me", MainFinally("raised"))

\* the startup notification was sent
Notified ==
    /\ MainStep("notify", [main EXCEPT !.pc = "loop", !.notified = TRUE])
    /\ UNCHANGED fails

NotifyFailed ==
    /\ Raise
    /\ MainStep("notify", MainFinally("raised"))

\* run_until_disconnected() returns
Disconnected ==
    /\ MainStep("loop", MainFinally("returned"))
    /\ UNCHANGED fails

\* await http_runner.cleanup()
CleanedUp ==
    /\ MainStep("cleanup", [main EXCEPT !.pc = main.ended, !.http = "cleaned"])
    /\ UNCHANGED fails

InitMain ==
    /\ file \in {<<>>, <<tuned_config>>}
    /\ progress = {}
    /\ message_map = {}
    /\ config = load_config(file, progress)
    /\ dest = <<>>
    /\ dest2 = <<>>
    /\ tasks = [t \in Slots |-> IdleTask]
    /\ starts = MaxStarts - 1
    /\ restarts = 0
    /\ fails = MaxFails - 1
    /\ posts = 1..MaxMsg
    /\ \E env \in [Required -> EnvValues], authorized \in BOOLEAN :
          main = [pc |-> "import", env |-> env, authorized |-> authorized,
                  http |-> "none", keep_alive |-> FALSE, notified |-> FALSE,
                  ended |-> "none"]
    /\ update = NoUpdate
    /\ keepalive_log = KeepPings

\* updates are dispatched while main is in run_until_disconnected(); the
\* keep-alive task runs, once created, while the event loop does
NextMain ==
    \/ ImportRaises \/ MainStart
    \/ HttpStarted \/ HttpFailed
    \/ Connected \/ ConnectFailed
    \/ Authorized
    \/ GotMe \/ GetMeFailed
    \/ Notified \/ NotifyFailed
    \/ Disconnected
    \/ CleanedUp
    \/ main.pc = "loop" /\ AdminStep
    \/ main.pc = "loop" /\ \E t \in Slots : StartTask(t)
    \/ main.keep_alive /\ main.pc \in {"notify", "loop"} /\ keep_alive_aggressive

SpecMain == InitMain /\ [][NextMain]_vars

\* ---- one copy loop over a longer source channel -----------------------------
InitLong ==
    /\ file \in {<<>>, <<tuned_config>>}
    /\ progress = {}
    /\ message_map = {}
    /\ config = load_config(file, progress)
    /\ dest = <<>>
    /\ dest2 = <<>>
    /\ tasks = [t \in Slots |-> IdleTask]
    /\ starts = MaxStarts - 1
    /\ restarts = 0
    /\ fails = 0
    /\ posts = 1..LongMsg
    /\ main = InLoop
    /\ update = NoUpdate
    /\ keepalive_log = KeepPings

NextLong ==
    \/ AdminStep
    \/ \E t \in Slots : TaskStep(t)
    \/ keep_alive_aggressive

SpecLong == InitLong /\ [][NextLong]_vars

\* ---- the copy tasks under the event loop's scheduling -------------------------
\* the event loop resumes every task whose await is over: a task that can take a
\* step, because its send, sleep or iterator has returned or raised, takes one
InitStop ==
    /\ file \in {<<>>, <<tuned_config>>}
    /\ progress = {}
    /\ message_map = {}
    /\ config = load_config(file, progress)
    /\ dest = <<>>
    /\ dest2 = <<>>
    /\ tasks = [t \in Slots |-> IdleTask]
    /\ starts = MaxStarts - 1
    /\ restarts = 0
    /\ fails = 0
    /\ posts = 1..MaxMsg
    /\ main = InLoop
    /\ update = NoUpdate
    /\ keepalive_log = KeepPings

NextStop ==
    \/ AdminStep
    \/ \E t \in Slots : TaskStep(t)

SpecStop ==
    InitStop /\ [][NextStop]_vars /\ \A t \in Slots : WF_vars(TaskStep(t))

\* ---- /laststatus ----------------------------------------------------------------------
LastLimit == 10

\* SELECT ... FROM message_map ORDER BY source_msg_id DESC LIMIT ?
RECURSIVE get_last_messages(_, _)
get_last_messages(table, limit) ==
    IF table = {} \/ limit = 0
    THEN <<>>
    ELSE LET top == CHOOSE r \in table :
                        \A other \in table : other.source_msg_id <= r.source_msg_id
         IN <<top>> \o get_last_messages(table \ {top}, limit - 1)

\* /laststatus: the list, and `/setid {last_msgs[0][0]}` as the id to resume from
\* (0 when the reply is "No forwarding history in database")
laststatus_handler ==
    LET last_msgs == get_last_messages(message_map, LastLimit) IN
    /\ update' = [sender |-> ADMIN_ID, kind |-> "message", data |-> <<"/laststatus">>,
                  reply_to |-> 0,
                  found |-> IF last_msgs = <<>> THEN 0 ELSE last_msgs[1].source_msg_id]
    /\ UNCHANGED state

\* ---- the offset commands beside a copy loop -------------------------------------------
OffsetTexts ==
    {<<"/forward">>, <<"/stopforward">>, <<"/setid", "1">>, <<"/setid", "-1">>,
     <<"/reset", "CONFIRM">>}

InitOffset ==
    /\ file \in {<<>>, <<auto_config>>}
    /\ progress = {}
    /\ message_map = {}
    /\ config = load_config(file, progress)
    /\ dest = <<>>
    /\ dest2 = <<>>
    /\ tasks = [t \in Slots |-> IdleTask]
    /\ starts = 0
    /\ restarts = 0
    /\ fails = MaxFails
    /\ posts = 1..MaxMsg
    /\ main = InLoop
    /\ update = NoUpdate
    /\ keepalive_log = KeepPings

NextOffset ==
    \/ \E text \in OffsetTexts : NewMessage(ADMIN_ID, text)
    \/ laststatus_handler
    \/ \E t \in Slots : MapTaskStep(t)

SpecOffset == InitOffset /\ [][NextOffset]_vars

\* ---- copy loops beside auto-forwarding, the offset never set by hand -------------------
InitAuto ==
    /\ file = <<auto_config>>
    /\ progress = {}
    /\ message_map = {}
    /\ config = load_config(file, progress)
    /\ dest = <<>>
    /\ dest2 = <<>>
    /\ tasks = [t \in Slots |-> IdleTask]
    /\ starts = 0
    /\ restarts = 0
    /\ fails = MaxFails
    /\ posts = 1..MaxMsg
    /\ main = InLoop
    /\ update = NoUpdate
    /\ keepalive_log = KeepPings

NextAuto ==
    \/ forward_command /\ UNCHANGED update
    \/ callback_start /\ UNCHANGED update
    \/ stopforward_command /\ UNCHANGED update
    \/ callback_stop /\ UNCHANGED update
    \/ ChannelPost(ADMIN_ID)
    \/ \E t \in Slots : MapTaskStep(t)

SpecAuto == InitAuto /\ [][NextAuto]_vars

\* ---- /speed beside a copy loop ---------------------------------------------------------
SpeedTexts ==
    {<<"/speed">>, <<"/speed", "slow">>, <<"/speed", "safe">>, <<"/speed", "balanced">>,
     <<"/speed", "fast">>, <<"/speed", "Turbo">>}

InitSpeed ==
    /\ file \in {<<>>, <<tuned_config>>}
    /\ progress = {}
    /\ message_map = {}
    /\ config = load_config(file, progress)
    /\ dest = <<>>
    /\ dest2 = <<>>
    /\ tasks = [t \in Slots |-> IdleTask]
    /\ starts = MaxStarts - 1
    /\ restarts = 0
    /\ fails = 0
    /\ posts = 1..MaxMsg
    /\ main = InLoop
    /\ update = NoUpdate
    /\ keepalive_log = KeepPings

NextSpeed ==
    \/ \E text \in SpeedTexts : NewMessage(ADMIN_ID, text)
    \/ AdminStep
    \/ \E t \in Slots : TaskStep(t)

SpecSpeed == InitSpeed /\ [][NextSpeed]_vars

\* ---- the HTTP server ---------------------------------------------------------------
MaxPings == 2

\* a request answered: nothing of the bot's state is written
HttpResponse(path, text) ==
    /\ main.http = "up"
    /\ update' = [sender |-> 0, kind |-> "http", data |-> <<path, text>>,
                  reply_to |-> 0, found |-> 0]
    /\ UNCHANGED <<config, file, progress, message_map, dest, dest2, tasks, starts,
                   restarts, fails, posts, main>>

\* GET /health and GET /status: db.get_progress() and config.get('is_running')
health_check(path) ==
    /\ HttpResponse(path, IF DictGet({config.is_running}, FALSE)
                          THEN "healthy, bot_running" ELSE "healthy")
    /\ UNCHANGED keepalive_log

\* GET /: the status line and the progress row's figures
root_handler ==
    /\ HttpResponse("/", IF DictGet({config.is_running}, FALSE)
                         THEN "Running" ELSE "Stopped")
    /\ UNCHANGED keepalive_log

\* GET /ping as it would be if it saved the progress as the keep-alive loop does
ping_handler_Saving ==
    /\ main.http = "up"
    /\ update' = [sender |-> 0, kind |-> "http", data |-> <<"/ping", "pong">>,
                  reply_to |-> 0, found |-> 0]
    /\ keepalive_log' = log_keepalive(keepalive_log)
    /\ progress' = save_progress(progress, config.source_channel,
                                 config.destination_channel,
                                 config.last_forwarded_id, config.forwarded_count,
                                 IF config.is_running THEN "running" ELSE "idle")
    /\ UNCHANGED <<config, file, message_map, dest, dest2, tasks, starts, restarts, fails,
                   posts, main>>

\* GET /ping: db.log_keepalive()
ping_handler ==
    /\ HttpResponse("/ping", "pong")
    /\ keepalive_log' = log_keepalive(keepalive_log)

HttpRequest ==
    \/ root_handler
    \/ health_check("/health")
    \/ health_check("/status")
    \/ ping_handler

InitHttp ==
    /\ file \in {<<>>, <<tuned_config>>}
    /\ progress = {}
    /\ message_map = {}
    /\ config = load_config(file, progress)
    /\ dest = <<>>
    /\ dest2 = <<>>
    /\ tasks = [t \in Slots |-> IdleTask]
    /\ starts = MaxStarts - 1
    /\ restarts = 0
    /\ fails = MaxFails
    /\ posts = 1..MaxMsg
    /\ main = InLoop
    /\ update = NoUpdate
    /\ keepalive_log = KeepPings - MaxPings

NextHttp ==
    \/ HttpRequest
    \/ AdminStep
    \/ \E t \in Slots : MapTaskStep(t)
    \/ keep_alive_aggressive

SpecHttp == InitHttp /\ [][NextHttp]_vars

\* ---- properties -------------------------------------------------------------------
Range(seq) == {seq[i] : i \in 1..Len(seq)}
Last(seq) == seq[Len(seq)]
Running(pc) == pc \notin {"none", "done", "starting"}
ChannelsSet == Truthy(config.source_channel) /\ Truthy(config.destination_channel)

\* C1: at most one copy-loop task is active at any time.
C1_AtMostOneTask == Cardinality({t \in Slots : Active(t)}) <= 1

\* C2: with the running flag cleared the loop begins no send to the destination:
\* a send begins only in a step that found the flag set, a post reaches the
\* destination only from a send in flight, and a poll that finds the flag cleared
\* leaves the loop.
C2_NoSendAfterStop ==
    [][/\ \A t \in Slots :
            /\ (tasks[t].pc # "send" /\ tasks'[t].pc = "send") => config.is_running
            /\ (/\ tasks[t].pc = "iter" /\ tasks'[t] # tasks[t]
                /\ restarts' = restarts /\ ~config.is_running)
               => tasks'[t].pc \in {"stop_notify", "complete_notify", "error_notify"}
       /\ dest' # dest => \E t \in Slots : tasks[t].pc = "send"]_vars

\* a loop that had copied something found the flag cleared and is leaving
C2_Witness ==
    \E t \in Slots :
        tasks[t].pc = "stop_notify" /\ tasks[t].forwarded > 0 /\ ~config.is_running

\* C3: in the step that ends a copy task, however its loop ended, the running flag
\* is false in memory and in the configuration file.
C3_FlagClearedAtEnd ==
    [][\A t \in Slots :
          (Running(tasks[t].pc) /\ tasks'[t].pc = "done")
          => /\ ~config'.is_running
             /\ file' # <<>>
             /\ ~file'[1].is_running]_vars

\* a task whose loop ended by an escaping failure is over
C3_Witness ==
    \E t \in Slots :
        /\ tasks[t].pc = "done" /\ tasks[t].ended = "error"
        /\ ~config.is_running /\ ~file[1].is_running

\* C4: the ids a copy loop started with offset k has sent are all greater than k
\* and strictly increasing.
C4_SendsAboveOffsetInOrder ==
    \A t \in Slots :
        \A i \in 1..Len(tasks[t].sent) :
            /\ tasks[t].sent[i] > tasks[t].start_id
            /\ i > 1 => tasks[t].sent[i - 1] < tasks[t].sent[i]

\* a loop resumed from a saved offset above 0 has sent two messages
C4_Witness ==
    \E t \in Slots : tasks[t].start_id > 0 /\ Len(tasks[t].sent) >= 2

\* C5: when the loop has ended with the source exhausted, every source message
\* above the start offset that the filter does not exclude has been sent.
C5_AllCopiedWhenExhausted ==
    \A t \in Slots :
        tasks[t].ended = "exhausted"
        => \A id \in Source :
              (id > tasks[t].start_id /\ ~Skipped(id, config))
              => id \in Range(tasks[t].sent)

\* C6: a successful send sets the offset to the id just copied and adds one to
\* the count; while a loop that has copied something runs, the offset is the id
\* of the last post made to the destination.
C6_OffsetIsLastCopied ==
    /\ [](\A t \in Slots :
            tasks[t].forwarded > 0 => config.last_forwarded_id = Last(dest))
    /\ [][\A t \in Slots :
            (tasks[t].pc = "send" /\ tasks'[t].forwarded = tasks[t].forwarded + 1)
            => /\ config'.last_forwarded_id = tasks[t].msg
               /\ config'.forwarded_count = config.forwarded_count + 1
               /\ dest' = Append(dest, tasks[t].msg)]_vars

\* a loop has made its second copy
C6_Witness ==
    \E t \in Slots :
        /\ tasks[t].pc \in {"notify", "sleep"} /\ tasks[t].forwarded = 2
        /\ config.last_forwarded_id = tasks[t].msg /\ Last(dest) = tasks[t].msg

C8_ForwardStartsAfterRestart ==
    (restarts > 0 /\ ChannelsSet /\ \A t \in Slots : tasks[t].pc = "none")
    => ForwardAccepts(config)

\* C9: the first copy loop of a restarted process starts right after the last
\* message that reached the destination.
C9_ExactResume ==
    (/\ restarts > 0 /\ dest # <<>>
     /\ \E t \in Slots : /\ tasks[t].pc = "setup"
                         /\ \A u \in Slots \ {t} : tasks[u].pc = "none")
    => \A t \in Slots : tasks[t].pc = "setup" => tasks[t].start_id = Last(dest)

\* C10: after startup, with a readable file, a progress row and auto_resume not
\* disabled, source, destination, offset and count are the row's and the rest is
\* the file's; with no readable file and a row, they are the row's over the
\* defaults; with neither, the configuration is the defaults.
C10_LoadConfig ==
    restarts > 0 =>
    LET row == get_progress(progress)
        FromRow == /\ config.source_channel = row.source_channel
                   /\ config.destination_channel = row.dest_channel
                   /\ config.last_forwarded_id = row.last_forwarded_id
                   /\ config.forwarded_count = row.total_forwarded
        RestFrom(base) ==
            \A k \in DOMAIN config \ {"source_channel", "destination_channel",
                                      "last_forwarded_id", "forwarded_count"} :
                config[k] = base[k]
    IN
    /\ (file # <<>> /\ has_progress(progress) /\ file[1].auto_resume # {FALSE})
       => FromRow /\ RestFrom(file[1])
    /\ (file = <<>> /\ has_progress(progress))
       => FromRow /\ RestFrom(default_config)
    /\ (file = <<>> /\ ~has_progress(progress))
       => config = default_config

\* a file without the auto_resume key and a row with another offset were loaded
C10_Witness ==
    /\ restarts > 0 /\ file # <<>> /\ has_progress(progress)
    /\ file[1].auto_resume = {}
    /\ file[1].last_forwarded_id # get_progress(progress).last_forwarded_id
    /\ config.last_forwarded_id = get_progress(progress).last_forwarded_id

\* C11: while one copy loop runs, the progress row's offset is never ahead of the
\* in-memory offset and never more than 4 of the loop's copies behind it; the step
\* that makes the 5th, 10th, ... copy of the session and the step that begins a
\* batch pause store the in-memory offset in the row.
C11_ProgressAtMostFourBehind ==
    /\ [](\A t \in Slots :
            Active(t) =>
            /\ has_progress(progress)
            /\ get_progress(progress).last_forwarded_id <= config.last_forwarded_id
            /\ Cardinality({i \in 1..Len(tasks[t].sent) :
                    tasks[t].sent[i] > get_progress(progress).last_forwarded_id}) <= 4)
    /\ [][\A t \in Slots :
            /\ (tasks'[t].forwarded = tasks[t].forwarded + 1
                 /\ tasks'[t].forwarded % 5 = 0)
               => get_progress(progress').last_forwarded_id = config'.last_forwarded_id
            /\ (tasks[t].pc # "batch_notify" /\ tasks'[t].pc = "batch_notify")
               => get_progress(progress').last_forwarded_id = config'.last_forwarded_id]_vars

\* the loop has made its 5th copy and the row holds that copy's id
C11_Witness ==
    \E t \in Slots :
        /\ Len(tasks[t].sent) = 5 /\ tasks[t].pc \in {"notify", "sleep"}
        /\ get_progress(progress).last_forwarded_id = tasks[t].sent[5]
        /\ get_progress(progress).status = "running"

\* C12: a copy loop never has more than batch_size copies behind it since its
\* last batch pause (or since its start, before the first pause).
C12_PauseEveryBatch ==
    \A t \in Slots : tasks[t].batch_count <= config.batch_size

\* C13: a copy task that is active while the running flag is cleared is
\* eventually over, unless a start request sets the flag again first.
C13_StopTerminates ==
    \A t \in Slots :
        (Active(t) /\ ~config.is_running) ~> (~Active(t) \/ config.is_running)

\* a task that had copied something and was stopped is over
C13_Witness ==
    \E t \in Slots :
        /\ tasks[t].pc = "done" /\ tasks[t].ended = "stopped"
        /\ ~config.is_running /\ dest # <<>>

\* C14: a command or a button press whose sender is not the admin changes neither
\* the configuration, the file, the progress row, the message mapping nor the tasks.
C14_StrangerChangesNothing ==
    [][(/\ update' # update /\ update'.sender = Stranger
        /\ (update'.kind = "callback" \/ update'.data \in Texts))
       => UNCHANGED <<config, file, progress, message_map, tasks>>]_vars

\* C14, amended: a command sent outside the source channel and a button press, by
\* somebody who is not the admin, change nothing. A message posted in the source
\* channel by somebody who is not the admin, whatever its text, creates and ends
\* no task and changes no field but offset and count; it changes anything only
\* when auto-mode is on and the configured source is that chat, by being copied.
C14_StrangerOnlyAutoForwards ==
    [][/\ \A text \in Texts : NewMessage(Stranger, text) => UNCHANGED state
       /\ \A data \in Buttons : CallbackQuery(Stranger, data) => UNCHANGED state
       /\ ChannelPost(Stranger)
          => /\ tasks' = tasks
             /\ \A k \in DOMAIN config \ {"forwarded_count", "last_forwarded_id"} :
                    config'[k] = config[k]
             /\ <<config, file, progress, message_map, dest>>'
                    # <<config, file, progress, message_map, dest>>
                => /\ config.auto_mode /\ config.source_channel = PeerId(SRC)
                   /\ Len(dest') = Len(dest) + 1
                   /\ config'.last_forwarded_id = Last(dest')]_vars

\* somebody else pressed 'start' with both channels set, and no task exists
C14_Witness ==
    /\ update.sender = Stranger /\ update.kind = "callback"
    /\ update.data = <<"start">>
    /\ ChannelsSet /\ ~config.is_running
    /\ \A t \in Slots : tasks[t].pc = "none"

\* C15: with a required credential missing, or with the session not authorized,
\* the keep-alive task is never created, the startup notification is never sent,
\* the event loop is never entered and no copy task ever exists; with a credential
\* missing the HTTP server is never started; with the session not authorized, the
\* HTTP server that was started has been cleaned up once main is over. With a
\* credential missing main, when it runs at all, returns at its first step.
C15_NoStartWithoutCredentials ==
    /\ [](LET Missing == \E var \in Required : main.env[var] # "set" IN
          /\ (Missing \/ ~main.authorized)
             => /\ ~main.keep_alive /\ ~main.notified /\ main.pc # "loop"
                /\ \A t \in Slots : tasks[t].pc = "none"
          /\ Missing => main.http = "none" /\ main.pc \in {"import", "crashed", "returned"}
          /\ (~main.authorized /\ main.pc \in {"returned", "raised"})
             => main.http # "up")
    /\ [][main.pc = "authorize" /\ ~main.authorized /\ main' # main
          => main'.pc = "cleanup" /\ main'.ended = "returned"]_vars

\* main has returned for a session that is not authorized, the server cleaned up
C15_Witness ==
    /\ main.pc = "returned" /\ ~main.authorized /\ main.http = "cleaned"
    /\ \A var \in Required : main.env[var] = "set"

\* C16: a send that raises is followed by exactly one delay: the task goes to the
\* 5 s sleep, or to the flood warning and from there to the 60 s sleep, and from
\* either sleep back to the iterator.
C16_OneDelayPerFailure ==
    [][\A t \in Slots :
          (restarts' = restarts /\ tasks'[t] # tasks[t])
          => /\ (tasks[t].pc = "send" /\ dest' = dest)
                => tasks'[t].pc \in {"flood_warn", "err_sleep"}
             /\ tasks[t].pc = "flood_warn" => tasks'[t].pc = "flood_sleep"
             /\ tasks[t].pc \in {"flood_sleep", "err_sleep"}
                => tasks'[t].pc = "iter"]_vars

\* C17: the admin's press of the menu's 'Auto' button changes auto-mode.
C17_AutoButtonToggles ==
    [][(/\ update' # update
        /\ update'.sender = ADMIN_ID /\ update'.kind = "callback"
        /\ update'.data = <<"toggle_auto">>)
       => config'.auto_mode # config.auto_mode]_vars

\* C18: a step never removes a row of the message mapping and never changes the
\* destination id a row holds: every row stays as it is.
C18_MappingAppendOnly ==
    [][\A r \in message_map : r \in message_map']_vars

\* C18, amended: the mapping has at most one row for a source id, and a source id
\* that has a row keeps having one; a step changes the destination id of a row
\* only by copying that source message again or by recovering its position.
C18_MappingKeepsKeys ==
    /\ [](\A r, q \in message_map : r.source_msg_id = q.source_msg_id => r = q)
    /\ [][\A r \in message_map :
            \/ r \in message_map'
            \/ /\ \E q \in message_map' : q.source_msg_id = r.source_msg_id
               /\ \/ dest' = Append(dest, r.source_msg_id)
                  \/ dest2' = Append(dest2, r.source_msg_id)
                  \/ update'.kind = "findid" /\ update'.found = r.source_msg_id]_vars

\* a new post was copied on arrival and again by the copy loop: its row holds the
\* id of the second copy
C18_Witness ==
    /\ Len(dest) >= 2 /\ dest[1] = MaxMsg + 1 /\ Last(dest) = MaxMsg + 1
    /\ [source_msg_id |-> MaxMsg + 1, dest_msg_id |-> Len(dest)] \in message_map

\* C19: the progress table holds at most one row, and a step that saves progress
\* leaves exactly the row of that save: id 1, with the forwarded count the
\* writer passed, which is the count config holds after the step.
C19_ProgressSingleton ==
    /\ [](Cardinality(progress) <= 1)
    /\ [][progress' # progress =>
            \E r \in progress' :
                /\ progress' = {r}
                /\ r.id = 1
                /\ r.total_forwarded = config'.forwarded_count]_vars

\* the start saved the row as running and the copy loop, having copied every
\* message, saved it again as completed
C19_Witness ==
    \E r \in progress :
        /\ progress = {r}
        /\ r.status = "completed"
        /\ r.total_forwarded >= MaxMsg

\* C20: a position recovery for an existing destination message answers nothing
\* or a source message with the text and the media presence of that destination
\* message, and nothing when the mapping has no row for the destination id and
\* no scanned source message matches.
C20_RecoveryMatches ==
    [][\A dest_msg_id \in 1..MaxMsg :
          findid_handler(dest_msg_id) =>
              LET channel == Channel(config.destination_channel)
                  exists == dest_msg_id \in 1..Len(channel)
                  found == update'.found
              IN /\ (exists /\ found # 0) =>
                        (found \in posts /\ SameContent(found, channel[dest_msg_id]))
                 /\ ( /\ find_source_by_dest(message_map, dest_msg_id) = {}
                      /\ \A id \in Scanned :
                            ~(exists /\ SameContent(id, channel[dest_msg_id])) )
                    => found = 0]_vars

\* C21: an HTTP request changes neither the configuration, nor the progress
\* record, nor the message mapping; root, health and status change nothing of
\* the bot's state, and ping nothing but the keep-alive log.
C21_HttpOnlyReads ==
    [][(HttpRequest \/ (update' # update /\ update'.kind = "http")) =>
          /\ UNCHANGED <<config, file, progress, message_map, dest, dest2, tasks>>
          /\ update'.data[1] # "/ping" => UNCHANGED keepalive_log]_vars

\* a ping was answered while a copy loop was running with a saved progress row, and
\* the log grew
C21_Witness ==
    /\ update.kind = "http" /\ update.data[1] = "/ping"
    /\ keepalive_log > KeepPings - MaxPings
    /\ config.is_running /\ progress # {} /\ message_map # {}

\* C22: when a copy task has ended and none has been started since, the status
\* of the progress row is how the task ended: stopped, completed or error.
C22_StatusTellsHowEnded ==
    \A t \in Slots :
        ( /\ tasks[t].pc = "done"
          /\ \A other \in Slots \ {t} : tasks[other].pc = "none" )
        => \E r \in progress : r.status = tasks[t].ended

\* C23: when /setid n was the last command handled, the next message copied to the
\* destination is the first source message with an id greater than max(n, 0).
C23_NextCopyFollowsSetid ==
    [][( /\ update.kind = "message" /\ update.sender = ADMIN_ID
         /\ update.data[1] = "/setid" /\ Len(update.data) = 2 /\ IsInt(update.data[2])
         /\ dest' # dest )
       => LET n == IF IntOf(update.data[2]) < 0 THEN 0 ELSE IntOf(update.data[2]) IN
          \E id \in posts :
              /\ id > n
              /\ \A other \in posts : other > n => id <= other
              /\ dest' = Append(dest, id)]_vars

\* C24: /setid n makes max(n, 0) the offset of the configuration and of the
\* progress row and leaves every other field of the configuration, the message
\* mapping and the tasks as they were; /setid without an integer changes nothing.
C24_SetidSetsOffsetOnly ==
    [][\A text \in Texts :
          (text[1] = "/setid" /\ NewMessage(ADMIN_ID, text)) =>
              IF Len(text) >= 2 /\ IsInt(text[2])
              THEN LET n == IF IntOf(text[2]) < 0 THEN 0 ELSE IntOf(text[2]) IN
                   /\ config' = [config EXCEPT !.last_forwarded_id = n]
                   /\ \E r \in progress' :
                         /\ progress' = {r}
                         /\ r.last_forwarded_id = n
                         /\ r.total_forwarded = config.forwarded_count
                   /\ UNCHANGED <<message_map, dest, dest2, tasks, posts>>
              ELSE UNCHANGED <<config, file, progress, message_map, dest, dest2, tasks,
                               posts>>]_vars

\* /setid with the highest id was handled while the running flag was set: the
\* offset is that id in the configuration and in the progress row, the count is
\* the one loaded
C24_Witness ==
    /\ update.sender = ADMIN_ID /\ update.data = <<"/setid", ToString(MaxMsg)>>
    /\ config.last_forwarded_id = MaxMsg
    /\ config.is_running
    /\ config.forwarded_count = AutoSaveEvery - 1
    /\ \E r \in progress : r.last_forwarded_id = MaxMsg /\ r.status = "manual_set"

\* C25: /reset without 'confirm' changes nothing; /reset confirm makes the offset
\* and the forwarded count 0 in the configuration and in the progress row and
\* leaves every other field of the configuration, and the tasks, as they were.
C25_ResetZeroesOffsetAndCount ==
    [][\A text \in Texts :
          (text[1] = "/reset" /\ NewMessage(ADMIN_ID, text)) =>
              IF Len(text) >= 2 /\ Lower(text[2]) = "confirm"
              THEN /\ config' = [config EXCEPT !.last_forwarded_id = 0,
                                               !.forwarded_count = 0]
                   /\ \E r \in progress' :
                         /\ progress' = {r}
                         /\ r.last_forwarded_id = 0
                         /\ r.total_forwarded = 0
                   /\ UNCHANGED <<dest, dest2, tasks, posts>>
              ELSE UNCHANGED <<config, file, progress, message_map, dest, dest2, tasks,
                               posts>>]_vars

\* /reset CONFIRM was handled while the running flag was set and the channels
\* were set: the loaded count is gone from the configuration and the progress row
C25_Witness ==
    /\ update.sender = ADMIN_ID /\ update.data = <<"/reset", "CONFIRM">>
    /\ file # <<>> /\ file[1].forwarded_count = 0
    /\ config.forwarded_count = 0 /\ config.last_forwarded_id = 0
    /\ config.is_running /\ ChannelsSaved(config)
    /\ \E r \in progress : r.total_forwarded = 0 /\ r.status = "reset"

\* the first source message with an id greater than n is copied to the destination
CopiesFirstAfter(n) ==
    \E id \in posts :
        /\ id > n
        /\ \A other \in posts : other > n => id <= other
        /\ dest' = Append(dest, id)

ResetConfirmed(u) ==
    /\ u.kind = "message" /\ u.sender = ADMIN_ID
    /\ Len(u.data) = 2 /\ u.data[1] = "/reset" /\ Lower(u.data[2]) = "confirm"

\* C26: /reset confirm leaves no row in the message mapping, and as long as it
\* is the last command handled, a copy follows the offset the reset left: it is the
\* copy of the first source message after that offset, and counts from there.
C26_ResetStartsFresh ==
    [][/\ (ResetConfirmed(update') /\ NewMessage(ADMIN_ID, update'.data))
           => message_map' = {}
       /\ (ResetConfirmed(update) /\ dest' # dest)
           => /\ CopiesFirstAfter(config.last_forwarded_id)
              /\ config'.forwarded_count = config.forwarded_count + 1]_vars

\* C27: /forward handled while the source or the destination is unset, or while
\* the running flag is set, creates no task and leaves the configuration, its
\* file and the progress row as they were.
C27_RefusedForwardChangesNothing ==
    [][( /\ NewMessage(ADMIN_ID, <<"/forward">>)
         /\ \/ ~Truthy(config.source_channel)
            \/ ~Truthy(config.destination_channel)
            \/ config.is_running )
       => UNCHANGED <<config, file, progress, message_map, tasks, starts>>]_vars

\* /forward was handled while the flag was set: the row still has the status that
\* /setid wrote after the start
C27_Witness ==
    /\ update.sender = ADMIN_ID /\ update.data = <<"/forward">>
    /\ config.is_running
    /\ \E r \in progress : r.status = "manual_set"

\* C28: the id /laststatus proposes to resume from is the source id of the message
\* copied last, whenever a message has been copied.
C28_ResumeIdIsLastCopied ==
    [][(laststatus_handler /\ dest # <<>>) => update'.found = Last(dest)]_vars

\* C29: without a restart and without /setid or /reset, no source message is sent
\* to the destination twice.
C29_NoMessageSentTwice ==
    \A i, j \in 1..Len(dest) : dest[i] = dest[j] => i = j

\* C30: no step of a copy loop or of the auto-forward handler makes the offset of
\* the configuration smaller than it was.
C30_OffsetNeverDecreases ==
    [][config'.last_forwarded_id >= config.last_forwarded_id]_vars

\* C31: 'Complete' is sent only for a loop that ended because the source had no
\* further message, and the session figure it reports is the number of messages
\* the task sent.
C31_CompleteOnlyWhenExhausted ==
    [][\A t \in Slots :
          CompleteNotifyOk(t) =>
              /\ tasks[t].ended = "exhausted"
              /\ SessionReported(tasks[t]) = Len(tasks[t].sent)]_vars

\* C32: with no copy task created or running and both channels set, the progress
\* row holds the source, the destination, the offset and the count of the
\* configuration.
C32_QuiescentRowIsConfig ==
    ((\A t \in Slots : Free(t)) /\ ChannelsSet)
    => \A r \in progress :
          /\ r.source_channel = config.source_channel
          /\ r.dest_channel = config.destination_channel
          /\ r.last_forwarded_id = config.last_forwarded_id
          /\ r.total_forwarded = config.forwarded_count

\* forward delay, batch size, batch pause
SpeedTriple(cfg) == <<cfg.forward_delay, cfg.batch_size, cfg.batch_delay>>

\* C33: the triple of forward delay, batch size and batch pause changes only into
\* the triple of one of the four presets, so it is the one loaded at startup or a
\* preset's; /speed with a preset's name makes it that preset's triple, and
\* /speed with an unknown or a missing name leaves it as it was.
C33_SpeedTripleIsPreset ==
    [][/\ \/ SpeedTriple(config') = SpeedTriple(config)
          \/ \E name \in DOMAIN presets : SpeedTriple(config') = presets[name]
       /\ \A text \in SpeedTexts :
             NewMessage(ADMIN_ID, text) =>
                 IF Len(text) >= 2 /\ Lower(text[2]) \in DOMAIN presets
                 THEN SpeedTriple(config') = presets[Lower(text[2])]
                 ELSE SpeedTriple(config') = SpeedTriple(config)]_vars

\* /speed fast was handled while a copy loop started with the hand-written batch
\* size was running
C33_Witness ==
    /\ update.sender = ADMIN_ID /\ update.data = <<"/speed", "fast">>
    /\ SpeedTriple(config) = presets["fast"]
    /\ file # <<>> /\ SpeedTriple(file[1]) = presets["fast"]
    /\ \E t \in Slots : Active(t) /\ tasks[t].batch_count > 0

====
